---- MODULE Spec2Model ----
(***************************************************************************)
(* Model of app_beijin.py: one Streamlit render of the rainfall report.    *)
(* The script is a straight line of sections; each section is one action   *)
(* and pc says which section runs next.  st.stop() ends the render with    *)
(* pc = "stopped", an exception that leaves the script ends it with        *)
(* pc = "crashed".                                                         *)
(*                                                                         *)
(* Numbers: rainfall readings are whole millimetres, and every quantity    *)
(* the script derives from them (mean, anomaly, monthly average, the 15%   *)
(* band) is held as an exact fraction [num, den] in lowest terms.  The     *)
(* rounding of binary doubles is not modelled.                             *)
(***************************************************************************)
EXTENDS Integers, Sequences, FiniteSets, TLC

VARIABLES pc, df, yearly_rain, avg_rain, anomaly, monthly_avg,
          wettest_month_idx, wettest_month_name, summary_data,
          yearly_table_df, insight_text, wet_months, excel_data, ui, uncaught

vars == <<pc, df, yearly_rain, avg_rain, anomaly, monthly_avg,
          wettest_month_idx, wettest_month_name, summary_data,
          yearly_table_df, insight_text, wet_months, excel_data, ui, uncaught>>

(***************************************************************************)
(* Bounds of the input files.                                              *)
(***************************************************************************)
MaxRows == 5

\* the dates a file may hold: five months of one year, one of them with
\* two days, and two months of each of the next two years
Dates ==
    {[year |-> 2018, month |-> m, day |-> 1] : m \in {1, 2, 6, 7, 12}} \cup
    {[year |-> 2018, month |-> 1, day |-> 15]} \cup
    {[year |-> y, month |-> m, day |-> 1] : y \in {2019, 2020}, m \in {1, 6}}

RainVals == {85, 115}

(***************************************************************************)
(* Exact fractions.                                                        *)
(***************************************************************************)
Abs(x) == IF x < 0 THEN -x ELSE x

RECURSIVE GCD(_, _)
GCD(a, b) == IF b = 0 THEN a ELSE GCD(b, a % b)

Rat(n, d) ==
    LET g == GCD(Abs(n), d) IN [num |-> n \div g, den |-> d \div g]

RatSub(a, b) == Rat(a.num * b.den - b.num * a.den, a.den * b.den)

RatMul(a, b) == Rat(a.num * b.num, a.den * b.den)

RatNeg(a) == [num |-> -a.num, den |-> a.den]

RatGt(a, b) == a.num * b.den > b.num * a.den

RatLt(a, b) == a.num * b.den < b.num * a.den

NaN == [num |-> 0, den |-> 0]

(***************************************************************************)
(* Python's fixed-point formatting f"{x:.Nf}" of a non-negative value:     *)
(* round to N decimals (half to even), print the integer part, a point     *)
(* and N zero-padded decimals.                                             *)
(***************************************************************************)
RECURSIVE Pow10(_)
Pow10(n) == IF n = 0 THEN 1 ELSE 10 * Pow10(n - 1)

RECURSIVE PadZeros(_, _)
PadZeros(s, width) == IF Len(s) >= width THEN s ELSE PadZeros("0" \o s, width)

FormatFixed(x, digits) ==
    LET n == x.num * Pow10(digits)
        q == n \div x.den
        r == n % x.den
        h == IF 2 * r > x.den \/ (2 * r = x.den /\ q % 2 = 1) THEN q + 1 ELSE q
    IN ToString(h \div Pow10(digits)) \o "." \o
       PadZeros(ToString(h % Pow10(digits)), digits)

(***************************************************************************)
(* calendar.month_name                                                     *)
(***************************************************************************)
month_name ==
    <<"January", "February", "March", "April", "May", "June", "July",
      "August", "September", "October", "November", "December">>

(***************************************************************************)
(* The input file.  A file is missing, or has a header of raw column names *)
(* and rows in date order; a row is a date and one reading.  Some date     *)
(* text of a file may be unparseable.                                      *)
(***************************************************************************)
Headers ==
    { {"date", "precipitation_mm"},
      {" Date ", "PRECIP"},
      {"date", "rainfall"},
      {"date", "temp"},
      {"day", "precip"} }

\* str.strip().str.lower() on the column names that occur in Headers
NormalizeColumn(c) ==
    CASE c = " Date " -> "date"
      [] c = "PRECIP" -> "precip"
      [] OTHER -> c

\* the dates of a file: at most MaxRows of them
DateSets == {S \in SUBSET Dates : Cardinality(S) <= MaxRows}

Min(S) == CHOOSE x \in S : \A y \in S : x <= y

Max(S) == CHOOSE x \in S : \A y \in S : y <= x

\* the elements of a set of numbers in ascending order
RECURSIVE SortedKeys(_)
SortedKeys(S) ==
    IF S = {} THEN <<>> ELSE <<Min(S)>> \o SortedKeys(S \ {Min(S)})

\* the rows of the file with the dates S and the readings f, in date order
FileRows(S, f) ==
    LET keys == SortedKeys({c.year * 10000 + c.month * 100 + c.day : c \in S})
    IN [i \in 1..Len(keys) |->
          LET c == [year |-> keys[i] \div 10000,
                    month |-> (keys[i] \div 100) % 100,
                    day |-> keys[i] % 100]
          IN [date |-> c, value |-> f[c]]]

(***************************************************************************)
(* Data loading, lines 49-67.                                              *)
(***************************************************************************)
RenameRainfall(cols) ==
    IF "precipitation_mm" \in cols
    THEN (cols \ {"precipitation_mm"}) \cup {"rainfall"}
    ELSE IF "precip" \in cols
    THEN (cols \ {"precip"}) \cup {"rainfall"}
    ELSE cols

Columns(header) == RenameRainfall({NormalizeColumn(c) : c \in header})

LoadFrame(header, rows) ==
    [columns |-> Columns(header) \cup {"year", "month"},
     rows |-> [i \in 1..Len(rows) |->
                 [year |-> rows[i].date.year,
                  month |-> rows[i].date.month,
                  value |-> rows[i].value]]]

NoFrame == [columns |-> {}, rows |-> <<>>]

Message(kind, label, value) == [kind |-> kind, label |-> label, value |-> value]

\* the except branch without its st.stop(): the script runs on
LoadFailed_NoStop(e) ==
    /\ ui' = Append(ui, Message("error",
               "ERROR: Could not load the CSV file. Please ensure 'beijing_2018_2024_weather.csv' is in your repository. Details:", e))
    /\ pc' = "calculations"
    /\ df' = df

\* the except branch, lines 65-67: st.error, then st.stop
LoadFailed(e) ==
    /\ ui' = Append(ui, Message("error",
               "ERROR: Could not load the CSV file. Please ensure 'beijing_2018_2024_weather.csv' is in your repository. Details:", e))
    /\ pc' = "stopped"
    /\ df' = df      \* nothing reads the frame after st.stop()

\* The file is read in the order of the try block: read_csv, the column
\* names, then the dates.  A step that raises does so whatever the later
\* parts of the file hold, so these are drawn only when they are reached.
Load ==
    /\ pc = "load"
    /\ \E exists \in BOOLEAN, header \in Headers :
         IF ~exists THEN LoadFailed("FileNotFoundError")
         ELSE IF "date" \notin Columns(header) THEN LoadFailed("KeyError: 'date'")
         ELSE \E S \in DateSets, garbled \in BOOLEAN :
                IF garbled
                THEN S # {} /\ LoadFailed("ParserError")
                ELSE \E f \in [S -> RainVals] :
                       /\ df' = LoadFrame(header, FileRows(S, f))
                       /\ pc' = "calculations"
                       /\ ui' = ui
    /\ UNCHANGED <<yearly_rain, avg_rain, anomaly, monthly_avg,
                   wettest_month_idx, wettest_month_name, summary_data,
                   yearly_table_df, insight_text, wet_months, excel_data, uncaught>>

(***************************************************************************)
(* Calculations, lines 70-77.                                              *)
(***************************************************************************)
RECURSIVE SumWhere(_, _, _)
\* sum of the readings of the rows whose field f has the value k
SumWhere(rows, f, k) ==
    IF rows = <<>> THEN 0
    ELSE (IF Head(rows)[f] = k THEN Head(rows).value ELSE 0)
         + SumWhere(Tail(rows), f, k)

\* df.groupby(f)['rainfall'].sum(): one entry per value of f that occurs
GroupSum(rows, f) ==
    [k \in {rows[i][f] : i \in 1..Len(rows)} |-> SumWhere(rows, f, k)]

RECURSIVE SumOf(_)
SumOf(fn) ==
    IF DOMAIN fn = {} THEN 0
    ELSE LET k == CHOOSE x \in DOMAIN fn : TRUE
         IN fn[k] + SumOf([j \in DOMAIN fn \ {k} |-> fn[j]])

Mean(fn) == Rat(SumOf(fn), Cardinality(DOMAIN fn))

\* the divisor as the number of distinct years
YearSpan_DistinctYears(rows) == Cardinality({rows[i].year : i \in 1..Len(rows)})

\* the divisor as the 7 years of the titles
YearSpan_Seven(rows) == 7

YearSpan(rows) ==
    LET ys == {rows[i].year : i \in 1..Len(rows)} IN Max(ys) - Min(ys) + 1

MonthlyAvg(rows) ==
    LET totals == GroupSum(rows, "month")
    IN [m \in DOMAIN totals |-> Rat(totals[m], YearSpan(rows))]

RECURSIVE ArgMaxScan_Last(_, _, _)
\* one pass over the keys in order, keeping the last largest value
ArgMaxScan_Last(series, keys, best) ==
    IF keys = <<>> THEN best
    ELSE ArgMaxScan_Last(series, Tail(keys),
                         IF ~RatLt(series[Head(keys)], series[best])
                         THEN Head(keys) ELSE best)

RECURSIVE ArgMaxScan(_, _, _)
\* one pass over the keys in order, keeping the first largest value
ArgMaxScan(series, keys, best) ==
    IF keys = <<>> THEN best
    ELSE ArgMaxScan(series, Tail(keys),
                    IF RatGt(series[Head(keys)], series[best])
                    THEN Head(keys) ELSE best)

IdxMax(series) ==
    LET keys == SortedKeys(DOMAIN series)
    IN ArgMaxScan(series, Tail(keys), Head(keys))

Calculations ==
    /\ pc = "calculations"
    /\ IF "rainfall" \notin df.columns
       THEN /\ uncaught' = "KeyError: 'rainfall'"
            /\ pc' = "crashed"
            /\ UNCHANGED <<yearly_rain, avg_rain, anomaly, monthly_avg,
                           wettest_month_idx, wettest_month_name>>
       ELSE IF df.rows = <<>>
       THEN \* the aggregates of an empty frame are empty or NaN; idxmax raises
            /\ yearly_rain' = <<>>
            /\ avg_rain' = NaN
            /\ anomaly' = <<>>
            /\ monthly_avg' = <<>>
            /\ uncaught' = "ValueError"
            /\ pc' = "crashed"
            /\ UNCHANGED <<wettest_month_idx, wettest_month_name>>
       ELSE /\ yearly_rain' = GroupSum(df.rows, "year")
            /\ avg_rain' = Mean(GroupSum(df.rows, "year"))
            /\ anomaly' = [y \in DOMAIN GroupSum(df.rows, "year") |->
                             RatSub(Rat(GroupSum(df.rows, "year")[y], 1),
                                    Mean(GroupSum(df.rows, "year")))]
            /\ monthly_avg' = MonthlyAvg(df.rows)
            /\ wettest_month_idx' = IdxMax(MonthlyAvg(df.rows))
            /\ wettest_month_name' = month_name[IdxMax(MonthlyAvg(df.rows))]
            /\ pc' = "key_metrics"
            /\ uncaught' = uncaught
    /\ UNCHANGED <<df, summary_data, yearly_table_df, insight_text,
                   wet_months, excel_data, ui>>

(***************************************************************************)
(* 1. Key metrics, lines 80-84.                                            *)
(***************************************************************************)
KeyMetrics ==
    /\ pc = "key_metrics"
    /\ ui' = ui \o
         << Message("metric", "Annual Average", FormatFixed(avg_rain, 1) \o " mm"),
            Message("metric", "Wettest Month", wettest_month_name),
            Message("metric", "Peak Avg. Monthly Rain",
                    FormatFixed(monthly_avg[IdxMax(monthly_avg)], 1) \o " mm") >>
    /\ pc' = "yearly_trends"
    /\ UNCHANGED <<df, yearly_rain, avg_rain, anomaly, monthly_avg,
                   wettest_month_idx, wettest_month_name, summary_data,
                   yearly_table_df, insight_text, wet_months, excel_data, uncaught>>

(***************************************************************************)
(* 2. Yearly trends, lines 87-105.  Texts that the export edits character  *)
(* by character are sequences of characters.                               *)
(***************************************************************************)
NormalLabel == <<"N", "o", "r", "m", "a", "l">>

WetLabel ==
    <<"W", "e", "t", " ", "(", "A", "b", "o", "v", "e", " ",
      "A", "v", "e", "r", "a", "g", "e", ")">>

DryLabel ==
    <<"D", "r", "y", " ", "(", "B", "e", "l", "o", "w", " ",
      "A", "v", "e", "r", "a", "g", "e", ")">>

\* avg_rain * 0.15
Band(avg) == RatMul(avg, Rat(15, 100))

\* the band with its edges outside Normal
Status_NonStrict(anom_val, avg) ==
    IF ~RatLt(anom_val, Band(avg)) THEN WetLabel
    ELSE IF ~RatGt(anom_val, RatNeg(Band(avg))) THEN DryLabel
    ELSE NormalLabel

Status(anom_val, avg) ==
    IF RatGt(anom_val, Band(avg)) THEN WetLabel
    ELSE IF RatLt(anom_val, RatNeg(Band(avg))) THEN DryLabel
    ELSE NormalLabel

SummaryRow(year, rain, anom, avg) ==
    [Year |-> year,
     Rainfall |-> FormatFixed(Rat(rain, 1), 2),
     Status |-> Status(anom[year], avg)]

SummaryData(yearly, anom, avg) ==
    LET years == SortedKeys(DOMAIN yearly)
    IN [i \in 1..Len(years) |-> SummaryRow(years[i], yearly[years[i]], anom, avg)]

YearlyTrends ==
    /\ pc = "yearly_trends"
    /\ summary_data' = SummaryData(yearly_rain, anomaly, avg_rain)
    /\ insight_text' = ""
    /\ yearly_table_df' = SummaryData(yearly_rain, anomaly, avg_rain)
    /\ ui' = Append(ui, Message("table", "",
                                SummaryData(yearly_rain, anomaly, avg_rain)))
    /\ pc' = "farmer_insights"
    /\ UNCHANGED <<df, yearly_rain, avg_rain, anomaly, monthly_avg,
                   wettest_month_idx, wettest_month_name, wet_months,
                   excel_data, uncaught>>

(***************************************************************************)
(* 3. Farmer insights, lines 109-120.                                      *)
(***************************************************************************)
RiceText ==
    "Excellent Condition: Suitable for long-cycle crops like Rice, as the rainy season is extended."

ShortCycleText ==
    "Moderate Condition: Suitable for fast-growing crops like Maize and Beans (Short cycle) due to average rainfall duration."

DroughtText ==
    "CAUTION: Dry area. High drought risk requires planting drought-resistant crops (Cassava, Sorghum)."

\* monthly_avg[monthly_avg >= 100].count()
WetMonths_Inclusive(series) ==
    Cardinality({m \in DOMAIN series : ~RatLt(series[m], Rat(100, 1))})

\* monthly_avg[monthly_avg > 100].count()
WetMonths(series) ==
    Cardinality({m \in DOMAIN series : RatGt(series[m], Rat(100, 1))})

Insight(count) ==
    IF count >= 5
    THEN [severity |-> "success", label |-> "Favorable Status", text |-> RiceText]
    ELSE IF count >= 3
    THEN [severity |-> "warning", label |-> "Moderate Status", text |-> ShortCycleText]
    ELSE [severity |-> "error", label |-> "Dry Status", text |-> DroughtText]

FarmerInsights ==
    /\ pc = "farmer_insights"
    /\ wet_months' = WetMonths(monthly_avg)
    /\ LET ins == Insight(WetMonths(monthly_avg)) IN
         /\ insight_text' = ins.text
         /\ ui' = Append(ui, Message(ins.severity, ins.label, ins.text))
    /\ pc' = "visualizations"
    /\ UNCHANGED <<df, yearly_rain, avg_rain, anomaly, monthly_avg,
                   wettest_month_idx, wettest_month_name, summary_data,
                   yearly_table_df, excel_data, uncaught>>

(***************************************************************************)
(* 4. Visualizations, lines 123-145.                                       *)
(***************************************************************************)
month_abbr ==
    <<"Jan", "Feb", "Mar", "Apr", "May", "Jun", "Jul", "Aug", "Sep", "Oct",
      "Nov", "Dec">>

BarColor(x) == IF x.num >= 0 THEN "#1f77b4" ELSE "#d62728"

Figure(yearly, anom, monthly) ==
    [bar_x |-> SortedKeys(DOMAIN yearly),
     bar_height |-> anom,
     bar_color |-> [y \in DOMAIN anom |-> BarColor(anom[y])],
     line_x |-> SortedKeys(DOMAIN monthly),
     line_y |-> monthly,
     xticks |-> [i \in 1..12 |-> i],
     xticklabels |-> month_abbr]

Visualizations ==
    /\ pc = "visualizations"
    /\ ui' = Append(ui, Message("pyplot", "",
                                Figure(yearly_rain, anomaly, monthly_avg)))
    /\ pc' = "download"
    /\ UNCHANGED <<df, yearly_rain, avg_rain, anomaly, monthly_avg,
                   wettest_month_idx, wettest_month_name, summary_data,
                   yearly_table_df, insight_text, wet_months, excel_data, uncaught>>

(***************************************************************************)
(* 5. Download button, lines 148-164, and create_excel_report, lines 9-39. *)
(***************************************************************************)
\* the positions i where text[i..] starts with " ("
OpenAt(text) ==
    {i \in 1..Len(text) - 1 : text[i] = " " /\ text[i + 1] = "("}

\* the positions of ")" after position i + 1
CloseAfter(text, i) == {j \in i + 2..Len(text) : text[j] = ")"}

\* the pattern without its leading blank: the blank before "(" stays
StripQualifier_KeepBlank(text) ==
    LET starts == {i \in 1..Len(text) : text[i] = "(" /\ CloseAfter(text, i - 1) # {}}
    IN IF starts = {} THEN text
       ELSE LET i == Min(starts)
                j == Max(CloseAfter(text, i - 1))
            IN SubSeq(text, 1, i - 1) \o SubSeq(text, j + 1, Len(text))

\* str.replace(r' \(.*\)', '', regex=True): the leftmost " (" that has a ")"
\* after it, up to the last ")" of the text, is removed
StripQualifier(text) ==
    LET starts == {i \in OpenAt(text) : CloseAfter(text, i) # {}}
    IN IF starts = {} THEN text
       ELSE LET i == Min(starts)
                j == Max(CloseAfter(text, i))
            IN SubSeq(text, 1, i - 1) \o SubSeq(text, j + 1, Len(text))

YearlySheet(yearly_data) ==
    [name |-> "1_Yearly_Trends",
     columns |-> <<"Year", "Total Rainfall (mm)", "Status">>,
     rows |-> [i \in 1..Len(yearly_data) |->
                 <<yearly_data[i].Year, yearly_data[i].Rainfall,
                   StripQualifier(yearly_data[i].Status)>>]]

MonthlySheet(monthly_data) ==
    LET index == SortedKeys(DOMAIN monthly_data)
    IN [name |-> "2_Monthly_Seasonality",
        columns |-> <<"Month Index", "Month Name", "Average Rainfall (mm)">>,
        rows |-> [i \in 1..Len(index) |->
                    <<index[i], month_name[index[i]], monthly_data[index[i]]>>]]

\* the sheet without its recommendation row
InsightsSheet_NoRecommendation(avg, wet_month, insight) ==
    [name |-> "3_Key_Insights",
     columns |-> <<"Metric", "Value">>,
     rows |-> << <<"7-Year Average Rainfall", FormatFixed(avg, 2) \o " mm">>,
                 <<"Wettest Month", wet_month>> >>]

InsightsSheet(avg, wet_month, insight) ==
    [name |-> "3_Key_Insights",
     columns |-> <<"Metric", "Value">>,
     rows |-> << <<"7-Year Average Rainfall", FormatFixed(avg, 2) \o " mm">>,
                 <<"Wettest Month", wet_month>>,
                 <<"Main Recommendation", insight>> >>]

create_excel_report(yearly_data, monthly_data, avg, wet_month, insight) ==
    << YearlySheet(yearly_data),
       MonthlySheet(monthly_data),
       InsightsSheet(avg, wet_month, insight) >>

Download ==
    /\ pc = "download"
    /\ excel_data' = create_excel_report(yearly_table_df, monthly_avg, avg_rain,
                                         wettest_month_name, insight_text)
    /\ ui' = Append(ui, Message("download_button", "bejin_rainfall_report.xlsx",
                      create_excel_report(yearly_table_df, monthly_avg, avg_rain,
                                          wettest_month_name, insight_text)))
    /\ pc' = "done"
    /\ UNCHANGED <<df, yearly_rain, avg_rain, anomaly, monthly_avg,
                   wettest_month_idx, wettest_month_name, summary_data,
                   yearly_table_df, insight_text, wet_months, uncaught>>

(***************************************************************************)
(* The render.                                                             *)
(***************************************************************************)
Init ==
    /\ pc = "load"
    /\ df = NoFrame
    /\ yearly_rain = <<>>
    /\ avg_rain = NaN
    /\ anomaly = <<>>
    /\ monthly_avg = <<>>
    /\ wettest_month_idx = 0
    /\ wettest_month_name = ""
    /\ summary_data = <<>>
    /\ yearly_table_df = <<>>
    /\ insight_text = ""
    /\ wet_months = 0
    /\ excel_data = <<>>
    /\ ui = <<>>
    /\ uncaught = "none"

Next ==
    \/ Load
    \/ Calculations
    \/ KeyMetrics
    \/ YearlyTrends
    \/ FarmerInsights
    \/ Visualizations
    \/ Download

Spec == Init /\ [][Next]_vars

(***************************************************************************)
(* Quantities of the specification, computed from the loaded rows alone.   *)
(***************************************************************************)
RECURSIVE SumValues(_)
SumValues(I) ==
    IF I = {} THEN 0
    ELSE LET i == CHOOSE x \in I : TRUE
         IN df.rows[i].value + SumValues(I \ {i})

YearsPresent == {df.rows[i].year : i \in DOMAIN df.rows}

MonthsPresent == {df.rows[i].month : i \in DOMAIN df.rows}

YearTotal(y) == SumValues({i \in DOMAIN df.rows : df.rows[i].year = y})

MonthTotal(m) == SumValues({i \in DOMAIN df.rows : df.rows[i].month = m})

AllTotal == SumValues(DOMAIN df.rows)

NumYears == Cardinality(YearsPresent)

SpanOfYears == Max(YearsPresent) - Min(YearsPresent) + 1

Contiguous == NumYears = SpanOfYears

LoadFaults == {"FileNotFoundError", "KeyError: 'date'", "ParserError"}

IsLoadError(m) == m.kind = "error" /\ m.value \in LoadFaults

Calculated ==
    pc \in {"key_metrics", "yearly_trends", "farmer_insights",
            "visualizations", "download", "done"}

TableBuilt == pc \in {"farmer_insights", "visualizations", "download", "done"}

InsightChosen == pc \in {"visualizations", "download", "done"}

NothingProduced ==
    /\ yearly_rain = <<>> /\ monthly_avg = <<>>
    /\ summary_data = <<>> /\ yearly_table_df = <<>>
    /\ insight_text = "" /\ excel_data = <<>>

(***************************************************************************)
(* C1: when the load fails (file missing or unreadable, no date column, a  *)
(* date that does not parse) exactly one error message is emitted and the  *)
(* render halts: nothing else is ever produced in that render.  A frame    *)
(* without a date column never gets past the load.                         *)
(***************************************************************************)
C1_LoadFailureHalts ==
    /\ [](\A i \in DOMAIN ui : IsLoadError(ui[i]) =>
             /\ pc = "stopped"
             /\ Len(ui) = 1
             /\ NothingProduced
             /\ uncaught = "none")
    /\ [](pc = "stopped" => Len(ui) = 1 /\ IsLoadError(ui[1]))
    /\ [](pc \notin {"load", "stopped"} => "date" \in df.columns)
    /\ [][pc # "stopped"]_vars

C1_Witness == pc = "stopped" /\ Len(ui) = 1 /\ ui[1].value = "KeyError: 'date'"

(***************************************************************************)
(* C2: a file with a valid date column but no rainfall column ends the     *)
(* render in the load handler: one error message, st.stop, no exception    *)
(* leaves the script.                                                      *)
(***************************************************************************)
C2_MissingRainfallCaught ==
    (/\ pc \in {"stopped", "crashed", "done"}
     /\ "date" \in df.columns
     /\ "rainfall" \notin df.columns)
    => (/\ pc = "stopped"
        /\ uncaught = "none"
        /\ Len(ui) = 1
        /\ ui[1].kind = "error")

(***************************************************************************)
(* C3: every year of the data gets exactly one status: Wet iff its anomaly *)
(* exceeds 15% of the multi-year average, Dry iff it is below minus 15%,   *)
(* Normal otherwise (so at exactly the band edge, and for a single year).  *)
(* With t the year's total, S the sum of the yearly totals and n the       *)
(* number of years, anomaly > 0.15 * average is 100 * (n*t - S) > 15 * S.  *)
(***************************************************************************)
ExpectedStatus(y) ==
    LET d == 100 * (NumYears * YearTotal(y) - AllTotal)
    IN IF d > 15 * AllTotal THEN WetLabel
       ELSE IF d < -(15 * AllTotal) THEN DryLabel
       ELSE NormalLabel

C3_YearStatus ==
    TableBuilt =>
      /\ \A y \in YearsPresent :
           /\ Cardinality({i \in DOMAIN summary_data : summary_data[i].Year = y}) = 1
           /\ \A i \in DOMAIN summary_data :
                summary_data[i].Year = y => summary_data[i].Status = ExpectedStatus(y)
           /\ anomaly[y].num * NumYears
                = (NumYears * YearTotal(y) - AllTotal) * anomaly[y].den
      /\ \A i \in DOMAIN summary_data : summary_data[i].Year \in YearsPresent
      /\ avg_rain.num * NumYears = AllTotal * avg_rain.den
      /\ NumYears = 1 => summary_data[1].Status = NormalLabel

C3_Witness ==
    /\ TableBuilt
    /\ NumYears >= 2
    /\ \E y \in YearsPresent :
         100 * (NumYears * YearTotal(y) - AllTotal) = 15 * AllTotal
    /\ \E i \in DOMAIN summary_data : summary_data[i].Status = NormalLabel

(***************************************************************************)
(* C4: the insight depends only on the number of months whose average is   *)
(* strictly above 100: 5 or more gives Favorable (success, rice), 3 or 4   *)
(* gives Moderate (warning, short-cycle crops), fewer gives Dry-risk       *)
(* (error, drought-resistant crops); exactly one is shown, and a month     *)
(* that averages exactly 100 is not counted.                               *)
(***************************************************************************)
CountAbove100 ==
    Cardinality({m \in 1..12 : MonthTotal(m) > 100 * SpanOfYears})

InsightMessages ==
    SelectSeq(ui, LAMBDA m : m.label \in {"Favorable Status", "Moderate Status", "Dry Status"})

C4_InsightByWetMonths ==
    InsightChosen =>
      /\ wet_months = CountAbove100
      /\ Len(InsightMessages) = 1
      /\ InsightMessages[1].value = insight_text
      /\ CountAbove100 >= 5 =>
           /\ InsightMessages[1].kind = "success"
           /\ InsightMessages[1].label = "Favorable Status"
           /\ insight_text = RiceText
      /\ (CountAbove100 >= 3 /\ CountAbove100 < 5) =>
           /\ InsightMessages[1].kind = "warning"
           /\ InsightMessages[1].label = "Moderate Status"
           /\ insight_text = ShortCycleText
      /\ CountAbove100 < 3 =>
           /\ InsightMessages[1].kind = "error"
           /\ InsightMessages[1].label = "Dry Status"
           /\ insight_text = DroughtText

C4_Witness ==
    /\ InsightChosen
    /\ \E m \in MonthsPresent : MonthTotal(m) = 100 * SpanOfYears
    /\ CountAbove100 >= 1
    /\ insight_text = DroughtText

(***************************************************************************)
(* C5: the monthly profile of a non-empty dataset has exactly 12 entries,  *)
(* one per month 1..12; a month without rows has the average 0, on screen  *)
(* and in the Monthly Seasonality sheet.                                   *)
(***************************************************************************)
C5_TwelveMonths ==
    /\ Calculated =>
         /\ DOMAIN monthly_avg = 1..12
         /\ \A m \in (1..12) \ MonthsPresent : monthly_avg[m].num = 0
    /\ pc = "done" => Len(excel_data[2].rows) = 12

(***************************************************************************)
(* C6: for every month of the profile, average * yearSpan = monthly total, *)
(* with yearSpan = maxYear - minYear + 1, also when a year in between has  *)
(* no rows.                                                                *)
(***************************************************************************)
C6_AverageOverSpan ==
    Calculated =>
      \A m \in DOMAIN monthly_avg :
         /\ monthly_avg[m].den > 0
         /\ monthly_avg[m].num * SpanOfYears = MonthTotal(m) * monthly_avg[m].den

C6_Witness ==
    /\ Calculated
    /\ ~Contiguous
    /\ \E m \in DOMAIN monthly_avg : MonthTotal(m) > 0

(***************************************************************************)
(* C7 as stated: for every dataset, contiguous years or not, a month's     *)
(* average is its total over all years divided by the number of distinct   *)
(* years present.                                                          *)
(***************************************************************************)
C7_AverageOverDistinctYears ==
    Calculated =>
      \A m \in DOMAIN monthly_avg :
         monthly_avg[m].num * NumYears = MonthTotal(m) * monthly_avg[m].den

(***************************************************************************)
(* C7 amended: when every year between the first and the last year of the  *)
(* data is present, a month's average is its total over all years divided  *)
(* by the number of distinct years present.                                *)
(***************************************************************************)
C7_AverageOverContiguousYears ==
    (Calculated /\ Contiguous) =>
      \A m \in DOMAIN monthly_avg :
         /\ monthly_avg[m].den > 0
         /\ monthly_avg[m].num * NumYears = MonthTotal(m) * monthly_avg[m].den

C7_Witness ==
    /\ Calculated
    /\ Contiguous
    /\ NumYears >= 2
    /\ \E m \in DOMAIN monthly_avg : MonthTotal(m) > 0

(***************************************************************************)
(* C8: the wettest month has the largest average of the profile, and of    *)
(* several months with the largest average it is the one with the lowest   *)
(* index; its name is the metric on screen and the value in Key Insights.  *)
(***************************************************************************)
C8_WettestMonth ==
    /\ Calculated =>
         /\ wettest_month_idx \in DOMAIN monthly_avg
         /\ DOMAIN monthly_avg = MonthsPresent
         /\ \A m \in MonthsPresent : MonthTotal(m) <= MonthTotal(wettest_month_idx)
         /\ \A m \in MonthsPresent :
              m < wettest_month_idx => MonthTotal(m) < MonthTotal(wettest_month_idx)
         /\ wettest_month_name = month_name[wettest_month_idx]
    /\ pc \in {"yearly_trends", "farmer_insights", "visualizations", "download", "done"} =>
         /\ ui[2].label = "Wettest Month"
         /\ ui[2].value = month_name[wettest_month_idx]
    /\ pc = "done" =>
         /\ excel_data[3].rows[2][1] = "Wettest Month"
         /\ excel_data[3].rows[2][2] = ui[2].value

C8_Witness ==
    /\ pc = "done"
    /\ \E m \in MonthsPresent :
         m > wettest_month_idx /\ MonthTotal(m) = MonthTotal(wettest_month_idx)
    /\ \E m \in MonthsPresent :
         m < wettest_month_idx /\ MonthTotal(m) < MonthTotal(wettest_month_idx)

(***************************************************************************)
(* C9: every payload has exactly three sheets, Yearly Trends, Monthly      *)
(* Seasonality, Key Insights, in this order and with their fixed columns;  *)
(* Key Insights has exactly three rows: the multi-year average, the name   *)
(* of the wettest month, and the recommendation shown on screen, which is  *)
(* never the empty initial text.                                           *)
(***************************************************************************)
C9_ThreeSheets ==
    /\ pc # "done" => excel_data = <<>>
    /\ pc = "done" =>
         /\ Len(excel_data) = 3
         /\ [i \in 1..3 |-> excel_data[i].name]
              = <<"1_Yearly_Trends", "2_Monthly_Seasonality", "3_Key_Insights">>
         /\ excel_data[1].columns = <<"Year", "Total Rainfall (mm)", "Status">>
         /\ excel_data[2].columns = <<"Month Index", "Month Name", "Average Rainfall (mm)">>
         /\ excel_data[3].columns = <<"Metric", "Value">>
         /\ \A k \in 1..3 : \A i \in DOMAIN excel_data[k].rows :
              Len(excel_data[k].rows[i]) = Len(excel_data[k].columns)
         /\ Len(excel_data[3].rows) = 3
         /\ [i \in 1..3 |-> excel_data[3].rows[i][1]]
              = <<"7-Year Average Rainfall", "Wettest Month", "Main Recommendation">>
         /\ excel_data[3].rows[1][2] = FormatFixed(avg_rain, 2) \o " mm"
         /\ excel_data[3].rows[2][2] = wettest_month_name
         /\ excel_data[3].rows[3][2] = InsightMessages[1].value
         /\ excel_data[3].rows[3][2] \in {RiceText, ShortCycleText, DroughtText}
         /\ ui[Len(ui)].kind = "download_button"
         /\ ui[Len(ui)].value = excel_data

C9_Witness ==
    /\ pc = "done"
    /\ Len(excel_data) = 3
    /\ excel_data[3].rows[3][2] = RiceText

(***************************************************************************)
(* C10: the Yearly Trends sheet has one row per row of the table on        *)
(* screen, in the same ascending order of years, with the same year and    *)
(* the same 2-decimal rainfall text; its status is the status on screen    *)
(* without the parenthetical qualifier, so one of Wet, Normal, Dry.        *)
(***************************************************************************)
ShortStatus == {<<"W", "e", "t">>, <<"N", "o", "r", "m", "a", "l">>, <<"D", "r", "y">>}

TableOnScreen == SelectSeq(ui, LAMBDA m : m.kind = "table")[1].value

C10_YearlySheetMatchesTable ==
    pc = "done" =>
      LET sheet == excel_data[1].rows
          table == TableOnScreen
      IN /\ Len(sheet) = Len(table)
         /\ Len(table) = NumYears
         /\ \A i \in DOMAIN sheet :
              /\ sheet[i][1] = table[i].Year
              /\ sheet[i][2] = table[i].Rainfall
              /\ sheet[i][2] = ToString(YearTotal(table[i].Year)) \o ".00"
              /\ sheet[i][3] \in ShortStatus
              /\ Len(sheet[i][3]) <= Len(table[i].Status)
              /\ SubSeq(table[i].Status, 1, Len(sheet[i][3])) = sheet[i][3]
              /\ Len(table[i].Status) > Len(sheet[i][3]) =>
                   /\ SubSeq(table[i].Status, Len(sheet[i][3]) + 1, Len(sheet[i][3]) + 2)
                        = <<" ", "(">>
                   /\ table[i].Status[Len(table[i].Status)] = ")"
         /\ \A i, j \in DOMAIN sheet : i < j => sheet[i][1] < sheet[j][1]

C10_Witness ==
    /\ pc = "done"
    /\ \E i, j \in DOMAIN excel_data[1].rows :
         /\ excel_data[1].rows[i][3] = <<"W", "e", "t">>
         /\ excel_data[1].rows[j][3] = <<"D", "r", "y">>
         /\ TableOnScreen[i].Status = WetLabel
         /\ TableOnScreen[j].Status = DryLabel

====
